---- MODULE Spec2Model ----
(***************************************************************************)
(* Model of the document lifecycle of pdfjs-react: the usePDFDocument hook *)
(* (src/src/hooks/usePDFDocument.ts) on top of loadDocument / parseSource  *)
(* (src/src/utils/parseSource.ts), run by React: a committed render runs   *)
(* the hook's effect, whose dependency `load` is rebuilt by every render.  *)
(***************************************************************************)
EXTENDS Integers, FiniteSets, Sequences, TLC

\* Highest value versionRef may take: the number of load() calls that get
\* past the `!src` guard in one behaviour.
MaxLoads == 4

Versions == 1..MaxLoads

\* null in a ref or cell that holds a handle or a task (versions start at 1)
None == 0

\* null in the `info` and `error` cells
NoInfo == [ver |-> None, numPages |-> None]
NoError == [kind |-> "none", ver |-> None]

\* The values the caller may pass as `src`: a URL string, a byte buffer, a
\* truthy value of another type, or undefined.
UrlSrc == [type |-> "string", val |-> "/a.pdf"]
BytesSrc == [type |-> "Uint8Array", val |-> "bytes"]
LongSrc == [type |-> "string", val |-> "/long.pdf"]
OtherSrc == [type |-> "object", val |-> "{}"]
NoSrc == [type |-> "undefined", val |-> ""]

SrcValues == {UrlSrc, BytesSrc, OtherSrc, NoSrc}

\* numPages of the document each loadable source yields.
UrlPages == 5
BytesPages == 2
LongPages == 8

NumPagesOf(s) ==
    IF s = UrlSrc THEN UrlPages
    ELSE IF s = LongSrc THEN LongPages
    ELSE BytesPages

VARIABLES
    src,                \* the `src` argument of the last render
    mounted,            \* "init" before mount, "yes", "gone" after unmount
    state,              \* useState: 'idle' | 'loading' | 'ready' | 'error'
    document,           \* useState: published handle (a version) or None
    info,               \* useState: published info or NoInfo
    error,              \* useState: published error or NoError
    loadingTaskRef,     \* useRef: task of the last started load, or None
    documentRef,        \* useRef: committed handle, or None
    versionRef,         \* useRef: generation counter
    opSrc,              \* source of the Load Operation of each version
    pending,            \* versions whose promise has not settled
    aborted,            \* versions whose task.destroy() was called
    handles,            \* versions whose load yielded a Document Handle
    destroyed,          \* per handle: number of doc.destroy() calls
    calls,              \* the callbacks the last step invoked, in order
    dirty,              \* a useState cell changed since the last render
    lastAct             \* the step taken last: [name, ver, kind]

VARIABLES
    props,                  \* PDFViewer's props, as the host passes them
    container,              \* clientWidth / clientHeight of the container
    currentPage,            \* useState(pageProp)
    currentScale,           \* useState(1), in hundredths
    currentRotation,        \* useState(rotationProp)
    initialScaleCalculated, \* useState(false)
    view,                   \* what the last render read
    scaleJobs,              \* getPage(1) promises that have not settled
    notes                   \* the viewer callbacks the last step invoked

VARIABLES
    workerInitialized,      \* worker.ts: the module variable
    workerSrc,              \* pdfjs.GlobalWorkerOptions.workerSrc
    workerLog,              \* the initializeWorker / resetWorker calls made
    zoomEvent,              \* the event dispatched last on the container
    suppression,            \* what the zoom-prevention listener did to it
    marks,                  \* per text-layer span: its two search classes
    searchQueryRef,         \* useRef('')
    searchOptionsRef,       \* useRef({})
    pages,                  \* PDFPages: number of loaded page entries
    visibleRange,           \* PDFPages: useState({ start: 0, end: 5 })
    scrollTop,              \* container.scrollTop
    lastPageRef,            \* usePageTracking: useRef(1)
    debounceTimer,          \* usePageTracking: the pending debounce timers
    renderTaskRef,          \* first page's PDFPage: useRef(null)
    renderTasks,            \* the RenderTasks it dispatched, by number
    jobArgs,                \* per RenderTask: its viewport, page and element
    textLayer,              \* the RenderTasks whose spans its text layer holds
    pageLoops,              \* the documents whose loadPages loop is running
    pagesOf                 \* the document the loaded page entries belong to

workerVars == <<workerInitialized, workerSrc, workerLog>>
zoomVars == <<zoomEvent, suppression>>
findVars == <<marks, searchQueryRef, searchOptionsRef>>
auxVars == <<workerVars, zoomVars, findVars>>
domVars == <<pages, visibleRange, scrollTop, lastPageRef, debounceTimer,
             renderTaskRef, renderTasks, jobArgs, textLayer, pageLoops,
             pagesOf>>

viewVars == <<props, container, currentPage, currentScale, currentRotation,
              initialScaleCalculated, view, scaleJobs, notes>>

vars == <<src, mounted, state, document, info, error, loadingTaskRef,
          documentRef, versionRef, opSrc, pending, aborted, handles,
          destroyed, calls, dirty, lastAct, viewVars, auxVars, domVars>>

\* The hook's cells, refs and the outside world as one record, so that the
\* steps of one handler compose.
Cur ==
    [mounted |-> mounted, state |-> state, document |-> document,
     info |-> info, error |-> error, loadingTaskRef |-> loadingTaskRef,
     documentRef |-> documentRef, versionRef |-> versionRef,
     opSrc |-> opSrc, pending |-> pending, aborted |-> aborted,
     handles |-> handles, destroyed |-> destroyed, calls |-> <<>>]

\* cb?.(): the caller's callback is invoked.
invoke(r, cb) == [r EXCEPT !.calls = Append(@, cb)]

Cells(r) == <<r.state, r.document, r.info, r.error>>

\* setState / setDocument / setInfo / setError: a no-op once unmounted.
setState(r, v) == IF r.mounted = "yes" THEN [r EXCEPT !.state = v] ELSE r
setDocument(r, v) == IF r.mounted = "yes" THEN [r EXCEPT !.document = v] ELSE r
setInfo(r, v) == IF r.mounted = "yes" THEN [r EXCEPT !.info = v] ELSE r
setError(r, v) == IF r.mounted = "yes" THEN [r EXCEPT !.error = v] ELSE r

\* parseSource: binary for byte buffers, url for strings, throws otherwise.
parseSource_FallbackUrl(s) ==
    IF s.type \in {"Uint8Array", "ArrayBuffer"} THEN "binary" ELSE "url"

parseSource(s) ==
    IF s.type \in {"Uint8Array", "ArrayBuffer"} THEN "binary"
    ELSE IF s.type = "string" THEN "url"
    ELSE "throw"

\* abortLoadingTask(task): task.destroy() when there is a task.
abortLoadingTask(r, task) ==
    IF task = None THEN r ELSE [r EXCEPT !.aborted = @ \cup {task}]

\* doc.destroy() on a handle.
destroyDoc(r, h) == [r EXCEPT !.destroyed = [@ EXCEPT ![h] = @ + 1]]

\* `if (documentRef.current) { documentRef.current.destroy(); documentRef.current = null }`
destroyDocumentRef_KeepRef(r) ==
    IF r.documentRef = None THEN r ELSE destroyDoc(r, r.documentRef)

destroyDocumentRef(r) ==
    IF r.documentRef = None THEN r
    ELSE [destroyDoc(r, r.documentRef) EXCEPT !.documentRef = None]

\* The staleness test of the promise handlers.
IsStale(r, version) == version # r.versionRef

\* The effect's cleanup.
cleanup(r) ==
    destroyDocumentRef(
        [abortLoadingTask(r, r.loadingTaskRef) EXCEPT !.loadingTaskRef = None])

\* load(), the body of the useCallback, for the source s of its closure.
load(r, s) ==
    IF s = NoSrc
    THEN setError(setInfo(setDocument(setState(r, "idle"), None), NoInfo), NoError)
    ELSE
      LET version == r.versionRef + 1
          r1 == [r EXCEPT !.versionRef = version]
          r2 == [abortLoadingTask(r1, r1.loadingTaskRef)
                    EXCEPT !.loadingTaskRef = None]
          r3 == destroyDocumentRef(r2)
          r4 == invoke(setError(setState(r3, "loading"), NoError),
                       "onLoadStart")
      IN  IF parseSource(s) # "throw"
          THEN [r4 EXCEPT !.loadingTaskRef = version,
                          !.opSrc = [@ EXCEPT ![version] = s],
                          !.pending = @ \cup {version}]
          ELSE invoke(setState(setError(r4, [kind |-> "invalid",
                                                  ver |-> version]),
                               "error"),
                      "onLoadError")

\* The .then handler of the Load Operation `version`.
thenHandler_NoStaleCheck(r, version) ==
    LET r1 == [r EXCEPT !.documentRef = version]
        docInfo == [ver |-> version, numPages |-> NumPagesOf(r.opSrc[version])]
    IN  invoke(setState(setInfo(setDocument(r1, version), docInfo), "ready"),
               "onLoadSuccess")

thenHandler(r, version) ==
    IF IsStale(r, version)
    THEN destroyDoc(r, version)
    ELSE
      LET r1 == [r EXCEPT !.documentRef = version]
          docInfo == [ver |-> version, numPages |-> NumPagesOf(r.opSrc[version])]
      IN  invoke(setState(setInfo(setDocument(r1, version), docInfo),
                          "ready"),
                 "onLoadSuccess")

\* The .catch handler of the Load Operation `version`; kind is "password"
\* for err.name === 'PasswordException' and "generic" otherwise.
catchHandler_NoStaleCheck(r, version, kind) ==
    LET r1 == IF kind = "password" THEN invoke(r, "onPasswordRequired") ELSE r
    IN  invoke(setState(setError(r1, [kind |-> kind, ver |-> version]),
                        "error"),
               "onLoadError")

catchHandler_PasswordOnly(r, version, kind) ==
    IF IsStale(r, version) THEN r
    ELSE IF kind = "password" THEN invoke(r, "onPasswordRequired")
    ELSE invoke(setState(setError(r, [kind |-> kind, ver |-> version]),
                         "error"),
                "onLoadError")

catchHandler(r, version, kind) ==
    IF IsStale(r, version) THEN r
    ELSE
      LET r1 == IF kind = "password" THEN invoke(r, "onPasswordRequired")
                ELSE r
      IN  invoke(setState(setError(r1, [kind |-> kind, ver |-> version]),
                          "error"),
                 "onLoadError")

\* Write a record back to the variables.
Commit(r) ==
    /\ mounted' = r.mounted
    /\ state' = r.state
    /\ document' = r.document
    /\ info' = r.info
    /\ error' = r.error
    /\ loadingTaskRef' = r.loadingTaskRef
    /\ documentRef' = r.documentRef
    /\ versionRef' = r.versionRef
    /\ opSrc' = r.opSrc
    /\ pending' = r.pending
    /\ aborted' = r.aborted
    /\ handles' = r.handles
    /\ destroyed' = r.destroyed
    /\ calls' = r.calls

\* load() for s may run: the `!src` branch always, the other within the bound.
CanLoad(s) == s = NoSrc \/ versionRef < MaxLoads

(***************************************************************************)
(* The viewport of PDFViewer (PDFViewer.tsx) and its command surface, the  *)
(* usePDFViewer hook (hooks/usePDFViewer.ts). A command is a useCallback   *)
(* closure: it reads the values of the render that built it (`view`) and   *)
(* writes the useState cells. Scales are counted in hundredths.            *)
(***************************************************************************)

\* The scale 1, in hundredths.
Unit == 100

ZOOM_STEP == 25
MIN_SCALE == 10
MAX_SCALE == 1000

\* `- 40 // padding`, the cap 1.5 of 'auto', and useState(1) of currentScale
Padding == 40
AutoMax == 150
InitialScale == Unit

\* The viewport of page 1 at scale 1 and rotation 0.
PageWidth == 612
PageHeight == 792

\* Number of documents published to the viewer in one behaviour, and of
\* getPage(1) promises pending at one time.
MaxDocs == 2
MaxJobs == 1

Min(a, b) == IF a < b THEN a ELSE b
Max(a, b) == IF a > b THEN a ELSE b

\* An optional prop: Undefined when the host omits it.
Undefined == <<>>
Given(v) == <<v>>
Default(p, d) == IF p = Undefined THEN d ELSE p[1]

\* ScaleValue: a number or one of the named policies.
Num(n) == [kind |-> "number", num |-> n]
Policy(p) == [kind |-> p, num |-> 0]

\* The destructuring defaults of the props.
pageProp == Default(props.page, 1)
rotationProp == Default(props.rotation, 0)
scaleProp == Default(props.scale, Policy("page-width"))
enableZoom_DefaultTrue == Default(props.enableZoom, TRUE)
enableZoom == Default(props.enableZoom, FALSE)

\* `info?.numPages ?? 0`
totalPagesOf(i) == IF i = NoInfo THEN 0 ELSE i.numPages

\* What a render reads, and what the closures it builds capture.
RenderView ==
    [currentPage |-> currentPage, currentScale |-> currentScale,
     currentRotation |-> currentRotation,
     initialScaleCalculated |-> initialScaleCalculated,
     state |-> state, document |-> document,
     totalPages |-> totalPagesOf(info), src |-> src]

\* The viewer's cells and pending getPage(1) promises as one record.
VCur ==
    [currentPage |-> currentPage, currentScale |-> currentScale,
     currentRotation |-> currentRotation,
     initialScaleCalculated |-> initialScaleCalculated,
     scaleJobs |-> scaleJobs, notes |-> <<>>]

\* cb?.(arg), and scrollIntoView on a page element.
notify(c, cb, arg) == [c EXCEPT !.notes = Append(@, [cb |-> cb, arg |-> arg])]

handlePageChange(c, page) ==
    notify([c EXCEPT !.currentPage = page], "onPageChange", page)

handleScaleChange(c, scale) ==
    IF ~enableZoom THEN c
    ELSE notify([c EXCEPT !.currentScale = scale], "onScaleChange", scale)

handleRotationChange(c, rotation) == [c EXCEPT !.currentRotation = rotation]

\* The page elements exist when the render took the last branch.
PagesRendered(v) == v.state = "ready" /\ v.document # None

\* Math.max(1, Math.min(page, totalPages))
validPage_NoFloor(page, total) == Min(page, total)

validPage(page, total) == Max(1, Min(page, total))

goToPage(c, v, page) ==
    IF v.document = None \/ v.totalPages = 0 THEN c
    ELSE
      LET c1 == handlePageChange(c, validPage(page, v.totalPages))
      IN  IF PagesRendered(v)
          THEN notify(c1, "scrollIntoView", validPage(page, v.totalPages))
          ELSE c1

nextPage(c, v) ==
    IF v.currentPage < v.totalPages THEN goToPage(c, v, v.currentPage + 1)
    ELSE c

previousPage(c, v) ==
    IF v.currentPage > 1 THEN goToPage(c, v, v.currentPage - 1) ELSE c

\* Math.max(MIN_SCALE, Math.min(scale, MAX_SCALE))
clampScale_NoFloor(scale) == Min(scale, MAX_SCALE)

clampScale(scale) == Max(MIN_SCALE, Min(scale, MAX_SCALE))

zoomIn(c, v) ==
    IF ~enableZoom THEN c
    ELSE handleScaleChange(c, Min(v.currentScale + ZOOM_STEP, MAX_SCALE))

zoomOut(c, v) ==
    IF ~enableZoom THEN c
    ELSE handleScaleChange(c, Max(v.currentScale - ZOOM_STEP, MIN_SCALE))

setScale(c, v, scale) ==
    IF ~enableZoom THEN c
    ELSE IF scale.kind = "number"
    THEN handleScaleChange(c, clampScale(scale.num))
    ELSE IF v.document = None THEN c
    ELSE [c EXCEPT !.scaleJobs = @ \cup
            {[kind |-> "named", scale |-> scale,
              rotation |-> v.currentRotation, document |-> v.document]}]

rotate(c, v, degrees) ==
    handleRotationChange(c, (v.currentRotation + degrees + 360) % 360)

setRotation(c, degrees) == handleRotationChange(c, degrees)

\* page.getViewport({ scale: 1, rotation }): a quarter turn swaps the sides.
viewport(rotation) ==
    IF rotation % 180 = 0
    THEN [width |-> PageWidth, height |-> PageHeight]
    ELSE [width |-> PageHeight, height |-> PageWidth]

calculateInitialScale(scaleValue, containerWidth, containerHeight, pageWidth, pageHeight) ==
    IF scaleValue.kind = "number" THEN scaleValue.num
    ELSE
      LET availableWidth == containerWidth - Padding
          availableHeight == containerHeight - Padding
          byWidth == (availableWidth * Unit) \div pageWidth
          byHeight == (availableHeight * Unit) \div pageHeight
      IN  CASE scaleValue.kind = "page-width" -> byWidth
            [] scaleValue.kind = "page-fit" -> Min(byWidth, byHeight)
            [] scaleValue.kind = "page-actual" -> Unit
            [] OTHER -> Min(byWidth, AutoMax)

\* newScale of setScale for a named policy, before the clamp.
namedScale(scale, box, vp) ==
    LET containerWidth == box.w - Padding
        containerHeight == box.h - Padding
        byWidth == (containerWidth * Unit) \div vp.width
        byHeight == (containerHeight * Unit) \div vp.height
    IN  CASE scale.kind = "page-width" -> byWidth
          [] scale.kind = "page-fit" -> Min(byWidth, byHeight)
          [] scale.kind = "page-actual" -> Unit
          [] OTHER -> Min(byWidth, AutoMax)

\* The four effects of PDFViewer, in declaration order; v is the render.
initialScaleEffect(c, v) ==
    IF v.document = None \/ v.initialScaleCalculated THEN c
    ELSE [c EXCEPT !.scaleJobs = @ \cup
            {[kind |-> "initial", scale |-> scaleProp,
              rotation |-> rotationProp, document |-> v.document]}]

srcEffect(c) == [c EXCEPT !.initialScaleCalculated = FALSE]

pagePropEffect(c, v) ==
    IF pageProp # v.currentPage /\ pageProp >= 1 /\ pageProp <= v.totalPages
    THEN [c EXCEPT !.currentPage = pageProp]
    ELSE c

rotationPropEffect(c, v) ==
    IF rotationProp # v.currentRotation
    THEN [c EXCEPT !.currentRotation = rotationProp]
    ELSE c

\* The .then of a getPage(1) promise.
resolveScaleJob(c, job) ==
    LET vp == viewport(job.rotation)
        c0 == [c EXCEPT !.scaleJobs = @ \ {job}]
    IN  IF job.kind = "initial"
        THEN [c0 EXCEPT
                !.currentScale =
                    calculateInitialScale(job.scale, container.w, container.h,
                                          vp.width, vp.height),
                !.initialScaleCalculated = TRUE]
        ELSE handleScaleChange(c0,
                 clampScale(namedScale(job.scale, container, vp)))

\* Write a record back to the variables, within the bound on promises.
VCommit(c) ==
    /\ Cardinality(c.scaleJobs) <= MaxJobs
    /\ currentPage' = c.currentPage
    /\ currentScale' = c.currentScale
    /\ currentRotation' = c.currentRotation
    /\ initialScaleCalculated' = c.initialScaleCalculated
    /\ scaleJobs' = c.scaleJobs
    /\ notes' = c.notes

\* The host's props and container.
NoProps ==
    [page |-> Undefined, rotation |-> Undefined, scale |-> Undefined,
     enableZoom |-> Undefined]

NormalBox == [w |-> 652, h |-> 832]
CollapsedBox == [w |-> 0, h |-> 0]
ShortBox == [w |-> 652, h |-> 300]

(***************************************************************************)
(* Global worker initialisation (utils/worker.ts).                         *)
(***************************************************************************)

\* cdnPaths[0], and the custom paths callers pass.
CdnWorkerSrc == "https://unpkg.com/pdfjs-dist@version/build/pdf.worker.min.mjs"
WorkerPaths == {"/first/path.js", "/second/path.js"}

\* Number of initializeWorker / resetWorker calls in one behaviour.
MaxCalls == 4

\* The module variable and pdfjs.GlobalWorkerOptions.workerSrc as a record.
WCur == [workerInitialized |-> workerInitialized, workerSrc |-> workerSrc]

\* `if (workerSrc)`: the argument is given and not the empty string.
initializeWorker_NoGuard(w, path) ==
    [workerInitialized |-> TRUE,
     workerSrc |-> IF path # Undefined /\ path[1] # "" THEN path[1]
                   ELSE CdnWorkerSrc]

initializeWorker(w, path) ==
    IF w.workerInitialized THEN w
    ELSE [workerInitialized |-> TRUE,
          workerSrc |-> IF path # Undefined /\ path[1] # "" THEN path[1]
                        ELSE CdnWorkerSrc]

isWorkerInitialized == workerInitialized

resetWorker(w) == [w EXCEPT !.workerInitialized = FALSE]

(***************************************************************************)
(* Zoom prevention (hooks/useZoomPrevention.ts): one listener per event    *)
(* type on the container; each returns what it did to the event.           *)
(***************************************************************************)

Passed == [prevented |-> FALSE, stopped |-> FALSE, attempt |-> ""]

\* event.preventDefault(); event.stopPropagation(); onZoomAttempt?.(type)
Suppressed(type) == [prevented |-> TRUE, stopped |-> TRUE, attempt |-> type]

handleWheel_CtrlOnly(enabled, event) ==
    IF enabled THEN Passed
    ELSE IF event.ctrlKey THEN Suppressed("wheel")
    ELSE Passed

handleWheel(enabled, event) ==
    IF enabled THEN Passed
    ELSE IF event.ctrlKey \/ event.metaKey THEN Suppressed("wheel")
    ELSE Passed

handleTouchStart(enabled, event) ==
    IF enabled THEN Passed
    ELSE IF event.touches > 1 THEN Suppressed("pinch")
    ELSE Passed

handleTouchMove(enabled, event) ==
    IF enabled THEN Passed
    ELSE IF event.touches > 1 THEN Suppressed("")
    ELSE Passed

handleKeyDown(enabled, event) ==
    IF enabled THEN Passed
    ELSE IF (event.ctrlKey \/ event.metaKey)
            /\ event.key \in {"+", "=", "-", "0"}
    THEN Suppressed("keyboard")
    ELSE Passed

handleGestureStart(enabled, event) ==
    IF enabled THEN Passed ELSE Suppressed("pinch")

handleGestureChange(enabled, event) ==
    IF enabled THEN Passed ELSE Suppressed("")

\* The listeners the effect registers on the container.
dispatchEvent(enabled, event) ==
    CASE event.type = "wheel" -> handleWheel(enabled, event)
      [] event.type = "touchstart" -> handleTouchStart(enabled, event)
      [] event.type = "touchmove" -> handleTouchMove(enabled, event)
      [] event.type = "keydown" -> handleKeyDown(enabled, event)
      [] event.type = "gesturestart" -> handleGestureStart(enabled, event)
      [] event.type = "gesturechange" -> handleGestureChange(enabled, event)
      [] OTHER -> Passed

NoEvent ==
    [type |-> "", ctrlKey |-> FALSE, metaKey |-> FALSE, touches |-> 0,
     key |-> ""]

(***************************************************************************)
(* Find: usePDFViewer's find / findNext / findPrevious / clearFind act on  *)
(* the class lists of the text-layer spans.  A text is a sequence of       *)
(* characters; the spans are numbered in document order.                   *)
(***************************************************************************)

SpanTexts ==
    << <<"C", "a", "t">>,
       <<"c", "a", "t", "s">>,
       <<"c", "a", "t", " ", "d", "o", "g">> >>

Spans == 1..Len(SpanTexts)

\* FindOptions: {} and the two options that change the comparison.
NoOptions == [caseSensitive |-> FALSE, wholeWord |-> FALSE]

Unmarked == [s \in Spans |-> [highlight |-> FALSE, current |-> FALSE]]

FCur ==
    [marks |-> marks, searchQueryRef |-> searchQueryRef,
     searchOptionsRef |-> searchOptionsRef]

\* String.prototype.toLowerCase and String.prototype.includes.
toLowerCase(text) ==
    [i \in 1..Len(text) |->
        IF text[i] = "C" THEN "c" ELSE IF text[i] = "D" THEN "d" ELSE text[i]]

includes(text, searchText) ==
    \E i \in 0..(Len(text) - Len(searchText)) :
        SubSeq(text, i + 1, i + Len(searchText)) = searchText

\* container.querySelectorAll('.pdf-search-highlight'), in document order.
querySelectorAll(m) ==
    LET found == {s \in Spans : m[s].highlight}
    IN  [i \in 1..Cardinality(found) |->
            CHOOSE s \in found : Cardinality({t \in found : t < s}) = i - 1]

\* Index in `highlights` of the first element that is also 'current', or 0.
currentIndex(m, highlights) ==
    LET both == {i \in 1..Len(highlights) : m[highlights[i]].current}
    IN  IF both = {} THEN 0 ELSE CHOOSE i \in both : \A j \in both : i <= j

\* find: the stored refs, then the highlight class of every span.
find(f, v, query, findOptions) ==
    LET g == [f EXCEPT !.searchQueryRef = query,
                       !.searchOptionsRef = findOptions]
        searchText == IF findOptions.caseSensitive THEN query
                      ELSE toLowerCase(query)
        compareText(s) == IF findOptions.caseSensitive THEN SpanTexts[s]
                          ELSE toLowerCase(SpanTexts[s])
    IN  IF v.document = None \/ query = <<>> THEN g
        ELSE [g EXCEPT !.marks =
                [s \in Spans |->
                    [highlight |-> /\ PagesRendered(v)
                                   /\ includes(compareText(s), searchText),
                     current |-> f.marks[s].current]]]

\* findNext (step = 1) and findPrevious (step = -1).
findStep(f, step) ==
    LET highlights == querySelectorAll(f.marks)
        n == Len(highlights)
        i == currentIndex(f.marks, highlights)
        target == IF i = 0 THEN (IF step = 1 THEN 1 ELSE n)
                  ELSE ((i - 1 + step + n) % n) + 1
        cleared == IF i = 0 THEN f.marks
                   ELSE [f.marks EXCEPT ![highlights[i]].current = FALSE]
    IN  IF n = 0 THEN f
        ELSE [f EXCEPT !.marks =
                [cleared EXCEPT ![highlights[target]].current = TRUE]]

findNext(f) == findStep(f, 1)

findPrevious(f) == findStep(f, -1)

clearFind(f) ==
    [marks |-> [s \in Spans |->
                   IF f.marks[s].highlight
                   THEN [highlight |-> FALSE, current |-> FALSE]
                   ELSE f.marks[s]],
     searchQueryRef |-> <<>>,
     searchOptionsRef |-> NoOptions]

(***************************************************************************)
(* The scrolled page list: PDFPages' virtualisation, usePageTracking, the  *)
(* keyboard handler and the Render Job of the first page's PDFPage.        *)
(* Lengths are CSS pixels; page elements are indexed from 0.               *)
(***************************************************************************)

pageGap == 10
ThresholdPct == 50
MaxTasks == 3

\* PDFPages' useState({ start: 0, end: 5 }).
InitialRange == [start |-> 0, end |-> 5]

\* rect.height of a page element (or its placeholder) and its offset in
\* the scrolled content.
rectHeight(scale, rotation) == (viewport(rotation).height * scale) \div Unit

offsetTop(index, scale, rotation) ==
    index * (rectHeight(scale, rotation) + pageGap)

\* The largest scrollTop the content allows.
maxScrollTop(n, containerHeight, scale, rotation) ==
    Max(0, offsetTop(n, scale, rotation) - pageGap - containerHeight)

\* forEach assigns startIndex / endIndex at every element that passes the
\* test, so the last such element decides.
updateVisibleRange(n, top, containerHeight, scale, rotation) ==
    LET elementTop(i) == offsetTop(i, scale, rotation) - top
        elementBottom(i) == elementTop(i) + rectHeight(scale, rotation)
        above == {i \in 0..(n - 1) : elementBottom(i) < -containerHeight}
        below == {i \in 0..(n - 1) : elementTop(i) > containerHeight * 2}
        last(S) == CHOOSE i \in S : \A k \in S : k <= i
        startIndex == IF above = {} THEN 0 ELSE Max(0, last(above) - 2)
        endIndex == IF below = {} THEN n - 1
                    ELSE Min(n - 1, last(below) + 2)
    IN  [start |-> Max(0, startIndex - 2), end |-> Min(n - 1, endIndex + 2)]

calculateVisiblePage_LastTie(n, containerTop, containerHeight, scale, rotation) ==
    LET height == rectHeight(scale, rotation)
        step(acc, i) ==
            LET elementTop == offsetTop(i, scale, rotation)
                elementBottom == elementTop + height
                visibleTop == Max(elementTop, containerTop)
                visibleBottom ==
                    Min(elementBottom, containerTop + containerHeight)
                visibleHeight == Max(0, visibleBottom - visibleTop)
                a == IF visibleHeight >= acc.maxVisibility
                     THEN [mostVisiblePage |-> i + 1,
                           maxVisibility |-> visibleHeight]
                     ELSE acc
            IN  IF /\ 2 * elementTop <= 2 * containerTop + containerHeight
                   /\ 2 * elementBottom >= 2 * containerTop + containerHeight
                THEN [mostVisiblePage |-> i + 1, maxVisibility |-> height]
                ELSE a
        scan[i \in 0..n] ==
            IF i = 0 THEN [mostVisiblePage |-> 1, maxVisibility |-> 0]
            ELSE step(scan[i - 1], i - 1)
    IN  scan[n]

calculateVisiblePage_AlwaysFull(n, containerTop, containerHeight, scale, rotation) ==
    LET height == rectHeight(scale, rotation)
        step(acc, i) ==
            LET elementTop == offsetTop(i, scale, rotation)
                elementBottom == elementTop + height
                visibleTop == Max(elementTop, containerTop)
                visibleBottom ==
                    Min(elementBottom, containerTop + containerHeight)
                visibleHeight == Max(0, visibleBottom - visibleTop)
                a == IF visibleHeight > acc.maxVisibility
                     THEN [mostVisiblePage |-> i + 1,
                           maxVisibility |-> visibleHeight]
                     ELSE acc
            IN  IF /\ 2 * elementTop <= 2 * containerTop + containerHeight
                   /\ 2 * elementBottom >= 2 * containerTop + containerHeight
                THEN [mostVisiblePage |-> i + 1, maxVisibility |-> height]
                ELSE a
        scan[i \in 0..n] ==
            IF i = 0 THEN [mostVisiblePage |-> 1, maxVisibility |-> 0]
            ELSE step(scan[i - 1], i - 1)
    IN  [scan[n] EXCEPT !.maxVisibility = height]

\* The loop of calculateVisiblePage over the n page elements.  A visibility
\* is kept as its numerator over rect.height, so 1 is rect.height itself.
calculateVisiblePage(n, containerTop, containerHeight, scale, rotation) ==
    LET height == rectHeight(scale, rotation)
        step(acc, i) ==
            LET elementTop == offsetTop(i, scale, rotation)
                elementBottom == elementTop + height
                visibleTop == Max(elementTop, containerTop)
                visibleBottom ==
                    Min(elementBottom, containerTop + containerHeight)
                visibleHeight == Max(0, visibleBottom - visibleTop)
                a == IF visibleHeight > acc.maxVisibility
                     THEN [mostVisiblePage |-> i + 1,
                           maxVisibility |-> visibleHeight]
                     ELSE acc
            IN  IF /\ 2 * elementTop <= 2 * containerTop + containerHeight
                   /\ 2 * elementBottom >= 2 * containerTop + containerHeight
                THEN [mostVisiblePage |-> i + 1, maxVisibility |-> height]
                ELSE a
        scan[i \in 0..n] ==
            IF i = 0 THEN [mostVisiblePage |-> 1, maxVisibility |-> 0]
            ELSE step(scan[i - 1], i - 1)
    IN  scan[n]

\* usePageTracking's debounce, on the number of timers that are pending.
\* debounceTimerRef holds the newest timer, which is pending when any is.
clearTimeout(timers) == IF timers > 0 THEN timers - 1 ELSE timers

handleScroll_NoClear(timers) == timers + 1

\* handleScroll: clearTimeout(debounceTimerRef.current), then setTimeout.
handleScroll(timers) == clearTimeout(timers) + 1

\* The keydown listener of PDFViewer.  Inside PDFViewer `document` is the
\* PDFDocumentProxy of usePDFDocument (or null), not the DOM document: a
\* proxy has no activeElement, and reading a property of null throws.
handleNavKeyDown(c, v, key, focus) ==
    LET activeElement == "undefined"
    IN  IF v.document = None THEN c
        ELSE IF activeElement # "inside" /\ activeElement # "container" THEN c
        ELSE IF key \in {"ArrowDown", "PageDown"} THEN nextPage(c, v)
        ELSE IF key \in {"ArrowUp", "PageUp"} THEN previousPage(c, v)
        ELSE IF key = "Home" THEN goToPage(c, v, 1)
        ELSE IF key = "End" THEN goToPage(c, v, v.totalPages)
        ELSE c

\* PDFPage's render effect and its cleanup, on the ref and the RenderTasks
\* of the first page.  A task is "active" while it rasterizes; cancel()
\* makes its promise reject with a RenderingCancelledException.
cancelRender(j) ==
    IF j.renderTaskRef = None THEN j
    ELSE [j EXCEPT !.renderTaskRef = None,
                   !.renderTasks[j.renderTaskRef] =
                       IF @ = "active" THEN "cancelled" ELSE @]

\* page.render(...) with the viewport of render v, after the cancellation
\* that left k of j.  A PDFPage that mounts has a new text layer element,
\* named after its first task; one whose dependencies changed keeps its
\* element.
dispatch(j, k, v) ==
    LET id == Len(k.renderTasks) + 1
        fresh == j.renderTaskRef = None
    IN  [renderTaskRef |-> id,
         renderTasks |-> Append(k.renderTasks, "active"),
         jobArgs |->
             Append(k.jobArgs,
                 [scale |-> v.currentScale, rotation |-> v.currentRotation,
                  document |-> v.document,
                  element |-> IF fresh THEN id
                              ELSE j.jobArgs[j.renderTaskRef].element]),
         textLayer |-> IF fresh THEN {} ELSE k.textLayer]

renderEffect_NoCancel(j, v) == dispatch(j, j, v)

renderEffect(j, v) == dispatch(j, cancelRender(j), v)

\* The text layer a task writes to is the one in the page now.
Attached(j, id) ==
    /\ j.renderTaskRef # None
    /\ j.jobArgs[j.renderTaskRef].element = j.jobArgs[id].element

\* The .then of renderTask.promise: textLayer.innerHTML = '', and
\* page.getTextContent() is requested (enableTextSelection is true).
renderThen(j, id) ==
    [j EXCEPT !.renderTasks[id] = "done",
              !.textLayer = IF Attached(j, id) THEN {} ELSE @]

\* The .then of page.getTextContent(): pdfjs.renderTextLayer appends the
\* spans laid out for the task's viewport to the text layer.
renderTextLayer(j, id) ==
    [j EXCEPT !.renderTasks[id] = "written",
              !.textLayer = IF Attached(j, id) THEN @ \cup {id} ELSE @]

\* The .catch of renderTask.promise.
renderCatch_LogAll(c, name, id) == notify(c, "console.error", id)

renderCatch(c, name, id) ==
    IF name # "RenderingCancelledException"
    THEN notify(c, "console.error", id)
    ELSE c

\* The first page is a PDFPage (not a placeholder, not unmounted).
FirstPageMounted(v, n, range) ==
    PagesRendered(v) /\ n > 0 /\ range.start <= 0 /\ 0 <= range.end

\* What a commit does to the first page's Render Job: `was` and `is` tell
\* whether its PDFPage is mounted before and after, `changed` whether the
\* effect's dependencies differ.  Its text layer goes with the element.
pageEffects_IgnoreChange(j, was, is, changed, v) ==
    IF was /\ ~is THEN [cancelRender(j) EXCEPT !.textLayer = {}]
    ELSE IF is /\ ~was THEN renderEffect(j, v)
    ELSE j

pageEffects(j, was, is, changed, v) ==
    IF was /\ ~is THEN [cancelRender(j) EXCEPT !.textLayer = {}]
    ELSE IF is /\ (~was \/ changed) THEN renderEffect(j, v)
    ELSE j

\* setPages(loadedPages) at the end of the loop that the PDFPages mounted
\* for document d started; n is d.numPages.  React ignores the call when
\* that PDFPages is no longer mounted in render v.
setPages_Unmounted(p, d, n, v) == [pages |-> n, pagesOf |-> d]

setPages(p, d, n, v) ==
    IF PagesRendered(v) /\ v.document = d
    THEN [pages |-> n, pagesOf |-> d]
    ELSE p

\* The module state and the hooks of PDFViewer before any call or event.
AuxConstructed ==
    /\ workerInitialized = FALSE
    /\ workerSrc = ""
    /\ workerLog = <<>>
    /\ zoomEvent = NoEvent
    /\ suppression = Passed
    /\ marks = Unmarked
    /\ searchQueryRef = <<>>
    /\ searchOptionsRef = NoOptions
    /\ pages = 0
    /\ visibleRange = InitialRange
    /\ scrollTop = 0
    /\ lastPageRef = 1
    /\ debounceTimer = 0
    /\ renderTaskRef = None
    /\ renderTasks = <<>>
    /\ jobArgs = <<>>
    /\ textLayer = {}
    /\ pageLoops = {}
    /\ pagesOf = None

\* The viewer after its first commit with props p in container box: the
\* mount effects change nothing while there is no document.
ViewerConstructed(p, box) ==
    /\ props = p
    /\ container = box
    /\ currentPage = pageProp
    /\ currentScale = InitialScale
    /\ currentRotation = rotationProp
    /\ initialScaleCalculated = FALSE
    /\ scaleJobs = {}
    /\ notes = <<>>
    /\ view = RenderView
    /\ AuxConstructed

\* The hook after construction; m is its mount status.
Constructed(m) ==
    /\ src = NoSrc
    /\ mounted = m
    /\ state = "idle"
    /\ document = None
    /\ info = NoInfo
    /\ error = NoError
    /\ loadingTaskRef = None
    /\ documentRef = None
    /\ versionRef = 0
    /\ opSrc = [v \in Versions |-> NoSrc]
    /\ pending = {}
    /\ aborted = {}
    /\ handles = {}
    /\ destroyed = [v \in Versions |-> 0]
    /\ calls = <<>>
    /\ dirty = FALSE
    /\ lastAct = [name |-> "Init", ver |-> 0, kind |-> ""]

Init == Constructed("init") /\ ViewerConstructed(NoProps, NormalBox)

\* First render with source s: the effect runs load().
Mount(s) ==
    /\ mounted = "init"
    /\ CanLoad(s)
    /\ LET r == load([Cur EXCEPT !.mounted = "yes"], s)
       IN  /\ Commit(r)
           /\ dirty' = (Cells(r) # Cells(Cur))
    /\ src' = s
    /\ lastAct' = [name |-> "Mount", ver |-> 0, kind |-> ""]
    /\ UNCHANGED <<viewVars, auxVars, domVars>>

\* A committed render with source s: `load` has a new identity (loadOptions
\* is a fresh object in every render), so the effect's cleanup runs and then
\* the effect itself: load().
RenderCommit(s) ==
    LET r == load(cleanup(Cur), s)
    IN  /\ Commit(r)
        /\ dirty' = (Cells(r) # Cells(Cur))

\* React re-renders the hook because one of its useState cells changed.
Render ==
    /\ mounted = "yes"
    /\ dirty
    /\ CanLoad(src)
    /\ RenderCommit(src)
    /\ UNCHANGED src
    /\ lastAct' = [name |-> "Render", ver |-> 0, kind |-> ""]
    /\ UNCHANGED <<viewVars, auxVars, domVars>>

\* The host re-renders the hook with the same source.
Rerender ==
    /\ mounted = "yes"
    /\ ~dirty
    /\ CanLoad(src)
    /\ RenderCommit(src)
    /\ UNCHANGED src
    /\ lastAct' = [name |-> "Rerender", ver |-> 0, kind |-> ""]
    /\ UNCHANGED <<viewVars, auxVars, domVars>>

\* The caller changes the source.
SetSrc(s) ==
    /\ mounted = "yes"
    /\ s # src
    /\ CanLoad(s)
    /\ RenderCommit(s)
    /\ src' = s
    /\ lastAct' = [name |-> "SetSrc", ver |-> 0, kind |-> ""]
    /\ UNCHANGED <<viewVars, auxVars, domVars>>

\* The caller calls reload(): load() without the effect's cleanup.
Reload ==
    /\ mounted = "yes"
    /\ CanLoad(src)
    /\ LET r == load(Cur, src)
       IN  /\ Commit(r)
           /\ dirty' = (dirty \/ Cells(r) # Cells(Cur))
    /\ UNCHANGED src
    /\ lastAct' = [name |-> "Reload", ver |-> 0, kind |-> ""]
    /\ UNCHANGED <<viewVars, auxVars, domVars>>

\* Unmount: the effect's cleanup runs.
Unmount ==
    /\ mounted = "yes"
    /\ Commit([cleanup(Cur) EXCEPT !.mounted = "gone"])
    /\ dirty' = FALSE
    /\ UNCHANGED src
    /\ lastAct' = [name |-> "Unmount", ver |-> 0, kind |-> ""]
    /\ UNCHANGED <<viewVars, auxVars, domVars>>

\* The promise of Load Operation v resolves with a document and its info.
Resolve(v) ==
    /\ v \in pending
    /\ LET r0 == [Cur EXCEPT !.pending = @ \ {v}, !.handles = @ \cup {v}]
           r == thenHandler(r0, v)
       IN  /\ Commit(r)
           /\ dirty' = (dirty \/ Cells(r) # Cells(Cur))
    /\ UNCHANGED src
    /\ lastAct' = [name |-> "Resolve", ver |-> v, kind |-> ""]
    /\ UNCHANGED <<viewVars, auxVars, domVars>>

\* The promise of Load Operation v rejects.
Reject(v, kind) ==
    /\ v \in pending
    /\ LET r0 == [Cur EXCEPT !.pending = @ \ {v}]
           r == catchHandler(r0, v, kind)
       IN  /\ Commit(r)
           /\ dirty' = (dirty \/ Cells(r) # Cells(Cur))
    /\ UNCHANGED src
    /\ lastAct' = [name |-> "Reject", ver |-> v, kind |-> kind]
    /\ UNCHANGED <<viewVars, auxVars, domVars>>

Next ==
    \/ \E s \in SrcValues : Mount(s)
    \/ Render
    \/ Rerender
    \/ \E s \in SrcValues : SetSrc(s)
    \/ Reload
    \/ Unmount
    \/ \E v \in Versions : Resolve(v)
    \/ \E v \in Versions, kind \in {"generic", "password"} : Reject(v, kind)

Spec == Init /\ [][Next]_vars

TypeOK ==
    /\ src \in SrcValues
    /\ mounted \in {"init", "yes", "gone"}
    /\ state \in {"idle", "loading", "ready", "error"}
    /\ document \in Versions \cup {None}
    /\ documentRef \in Versions \cup {None}
    /\ loadingTaskRef \in Versions \cup {None}
    /\ versionRef \in 0..MaxLoads
    /\ pending \subseteq Versions
    /\ handles \subseteq Versions
    /\ aborted \subseteq Versions

(***************************************************************************)
(* PDFViewer as a state machine. The hook's own render loop is left to     *)
(* Spec; here a source change and the load it starts are one step that     *)
(* publishes the new document to the viewer.                               *)
(***************************************************************************)

\* The host passes source s, load() runs and its promise resolves.
Publish(s) ==
    /\ mounted = "yes"
    /\ s # src
    /\ versionRef < Min(MaxDocs, MaxLoads)
    /\ LET r0 == load(cleanup(Cur), s)
           v == r0.versionRef
           r == thenHandler([r0 EXCEPT !.pending = @ \ {v},
                                       !.handles = @ \cup {v}], v)
       IN  /\ Commit(r)
           /\ dirty' = (Cells(r) # Cells(Cur))
    /\ src' = s
    /\ lastAct' = [name |-> "Publish", ver |-> versionRef + 1, kind |-> ""]
    /\ UNCHANGED <<viewVars, auxVars, domVars>>

hookVars == <<src, mounted, state, document, info, error, loadingTaskRef,
              documentRef, versionRef, opSrc, pending, aborted, handles,
              destroyed>>

\* The render effect or cleanup of the first page's PDFPage in this commit.
JCur ==
    [renderTaskRef |-> renderTaskRef, renderTasks |-> renderTasks,
     jobArgs |-> jobArgs, textLayer |-> textLayer]

JCommit(j) ==
    /\ renderTaskRef' = j.renderTaskRef
    /\ renderTasks' = j.renderTasks
    /\ jobArgs' = j.jobArgs
    /\ textLayer' = j.textLayer

PageEffects(v, is, changed) ==
    LET j == pageEffects(JCur, FirstPageMounted(view, pages, visibleRange),
                         is, changed, v)
    IN  /\ Len(j.renderTasks) <= MaxTasks
        /\ JCommit(j)

\* The container is scrolled to `top`: the scroll listeners of PDFPages
\* (updateVisibleRange) and of usePageTracking (handleScroll) run.
ScrollTo(top) ==
    /\ scrollTop' = top
    /\ LET range == updateVisibleRange(pages, top, container.h,
                        view.currentScale, view.currentRotation)
       IN  /\ visibleRange' = range
           /\ PageEffects(view, FirstPageMounted(view, pages, range), FALSE)
    /\ debounceTimer' = handleScroll(debounceTimer)
    /\ UNCHANGED <<pages, lastPageRef, pageLoops, pagesOf>>

\* What a render of PDFViewer does to the page list: PDFPages is mounted
\* afresh for another document and its effect starts the loadPages loop,
\* and usePageTracking's effect is cleaned up and run again when
\* totalPages changed (no page element exists then).
DomRender(v) ==
    /\ IF v.document # view.document
       THEN /\ pages' = 0
            /\ pagesOf' = None
            /\ pageLoops' = IF PagesRendered(v)
                             THEN pageLoops \cup {v.document} ELSE pageLoops
            /\ visibleRange' = InitialRange
            /\ scrollTop' = 0
            /\ PageEffects(v, FALSE, FALSE)
       ELSE /\ UNCHANGED <<pages, pagesOf, pageLoops, visibleRange, scrollTop>>
            /\ PageEffects(v, FirstPageMounted(v, pages, visibleRange),
                           <<v.currentScale, v.currentRotation>>
                             # <<view.currentScale, view.currentRotation>>)
    /\ debounceTimer' = IF v.totalPages = view.totalPages THEN debounceTimer
                        ELSE clearTimeout(debounceTimer)
    /\ UNCHANGED lastPageRef

\* element.scrollIntoView({ block: 'start' }) of a command, if it made one
\* and the page element exists.
DomCommand(c) ==
    LET made == {i \in 1..Len(c.notes) : c.notes[i].cb = "scrollIntoView"}
        page == c.notes[CHOOSE i \in made : TRUE].arg
        top == Min(offsetTop(page - 1, view.currentScale,
                             view.currentRotation),
                   maxScrollTop(pages, container.h, view.currentScale,
                                view.currentRotation))
    IN  IF made # {} /\ page <= pages /\ top # scrollTop
        THEN ScrollTo(top)
        ELSE UNCHANGED domVars

\* React renders PDFViewer after a cell changed, then runs the effects
\* whose dependencies differ from the previous render's.
ViewerRender ==
    /\ mounted = "yes"
    /\ RenderView # view
    /\ LET v == RenderView
           c1 == IF <<v.document, v.initialScaleCalculated>>
                      # <<view.document, view.initialScaleCalculated>>
                 THEN initialScaleEffect(VCur, v) ELSE VCur
           c2 == IF v.src # view.src THEN srcEffect(c1) ELSE c1
           c3 == IF <<v.currentPage, v.totalPages>>
                      # <<view.currentPage, view.totalPages>>
                 THEN pagePropEffect(c2, v) ELSE c2
           c4 == IF v.currentRotation # view.currentRotation
                 THEN rotationPropEffect(c3, v) ELSE c3
       IN  /\ VCommit(c4)
           /\ view' = v
           /\ DomRender(v)
    /\ dirty' = FALSE
    /\ calls' = <<>>
    /\ lastAct' = [name |-> "ViewerRender", ver |-> 0, kind |-> ""]
    /\ UNCHANGED <<hookVars, props, container, auxVars>>

\* A call through the imperative handle, with the closures of `view`.
Command(name, arg, kind, c) ==
    /\ mounted = "yes"
    /\ VCommit(c)
    /\ DomCommand(c)
    /\ calls' = <<>>
    /\ lastAct' = [name |-> name, ver |-> arg, kind |-> kind]
    /\ UNCHANGED <<hookVars, dirty, props, container, view, auxVars>>

GoToPage(page) == Command("goToPage", page, "", goToPage(VCur, view, page))
NextPage == Command("nextPage", 0, "", nextPage(VCur, view))
PreviousPage == Command("previousPage", 0, "", previousPage(VCur, view))
ZoomIn == Command("zoomIn", 0, "", zoomIn(VCur, view))
ZoomOut == Command("zoomOut", 0, "", zoomOut(VCur, view))
SetScale(scale) ==
    Command("setScale", scale.num, scale.kind, setScale(VCur, view, scale))
Rotate(degrees) ==
    Command("rotate", degrees, "", rotate(VCur, view, degrees))
SetRotation(degrees) ==
    Command("setRotation", degrees, "", setRotation(VCur, degrees))

\* A getPage(1) promise resolves.
ResolveScale(job) ==
    /\ job \in scaleJobs
    /\ VCommit(resolveScaleJob(VCur, job))
    /\ calls' = <<>>
    /\ lastAct' = [name |-> "ResolveScale", ver |-> job.document,
                   kind |-> job.kind]
    /\ UNCHANGED <<hookVars, dirty, props, container, view, auxVars,
                   domVars>>

\* A getPage(1) promise of a destroyed document rejects instead.
DropScale(job) ==
    /\ job \in scaleJobs
    /\ destroyed[job.document] > 0
    /\ VCommit([VCur EXCEPT !.scaleJobs = @ \ {job}])
    /\ calls' = <<>>
    /\ lastAct' = [name |-> "DropScale", ver |-> job.document,
                   kind |-> job.kind]
    /\ UNCHANGED <<hookVars, dirty, props, container, view, auxVars,
                   domVars>>

\* A key is pressed with the focus inside the container (focus = 1) or
\* elsewhere (focus = 0): both keydown listeners of the container run.
KeyDown(key, focus) ==
    /\ mounted = "yes"
    /\ LET c == handleNavKeyDown(VCur, view, key, focus)
           event == [NoEvent EXCEPT !.type = "keydown", !.key = key]
       IN  /\ VCommit(c)
           /\ DomCommand(c)
           /\ zoomEvent' = event
           /\ suppression' = dispatchEvent(enableZoom, event)
    /\ calls' = <<>>
    /\ lastAct' = [name |-> "keydown", ver |-> focus, kind |-> key]
    /\ UNCHANGED <<hookVars, dirty, props, container, view, workerVars,
                   findVars>>

DocSrcValues == {UrlSrc, BytesSrc}

\* Navigation: the page prop omitted, or beyond every document's last page.
BeyondLastPage == UrlPages + 2
PageArgs == {0, 1, 3, UrlPages, BeyondLastPage}
NavProps == {[NoProps EXCEPT !.page = p] : p \in {Undefined, Given(BeyondLastPage)}}

InitNav ==
    /\ Constructed("yes")
    /\ \E p \in NavProps : ViewerConstructed(p, NormalBox)

NextNav ==
    \/ \E s \in DocSrcValues : Publish(s)
    \/ ViewerRender
    \/ \E job \in scaleJobs : ResolveScale(job)
    \/ \E job \in scaleJobs : DropScale(job)
    \/ \E page \in PageArgs : GoToPage(page)
    \/ NextPage
    \/ PreviousPage
    \/ \E key \in {"ArrowDown", "PageDown", "ArrowUp", "PageUp", "Home",
                   "End"},
          focus \in {0, 1} : KeyDown(key, focus)

SpecNav == InitNav /\ [][NextNav]_vars

\* Rotation: the rotation prop omitted or a quarter turn.
RotationArgs == {0, 90, 180, 270, 45}
RotProps == {[NoProps EXCEPT !.rotation = p] : p \in {Undefined, Given(90)}}

InitRot ==
    /\ Constructed("yes")
    /\ \E p \in RotProps : ViewerConstructed(p, NormalBox)

NextRot ==
    \/ \E s \in DocSrcValues : Publish(s)
    \/ ViewerRender
    \/ \E job \in scaleJobs : ResolveScale(job)
    \/ \E job \in scaleJobs : DropScale(job)
    \/ \E degrees \in {90, -90} : Rotate(degrees)
    \/ \E degrees \in RotationArgs : SetRotation(degrees)

SpecRot == InitRot /\ [][NextRot]_vars

\* Scale: every form of the scale and enableZoom props, in a laid-out and
\* in a collapsed container.
ScaleArgs ==
    {Num(5), Num(150), Num(2000), Policy("page-width"), Policy("auto")}
ScalePropValues ==
    {Num(150), Num(2000), Policy("page-width"), Policy("page-fit"),
     Policy("page-actual"), Policy("auto")}
ScaleProps ==
    {[NoProps EXCEPT !.scale = s, !.enableZoom = z] :
        s \in {Undefined} \cup {Given(a) : a \in ScalePropValues},
        z \in {Undefined, Given(FALSE)}}
    \cup {[NoProps EXCEPT !.enableZoom = Given(TRUE)]}

InitScale ==
    /\ Constructed("yes")
    /\ \E p \in ScaleProps, box \in {NormalBox, CollapsedBox} :
           /\ box = CollapsedBox => p.enableZoom # Given(TRUE)
           /\ ViewerConstructed(p, box)

NextScale ==
    \/ \E s \in DocSrcValues : Publish(s)
    \/ ViewerRender
    \/ \E job \in scaleJobs : ResolveScale(job)
    \/ \E job \in scaleJobs : DropScale(job)
    \/ ZoomIn
    \/ ZoomOut
    \/ \E scale \in ScaleArgs : SetScale(scale)

SpecScale == InitScale /\ [][NextScale]_vars

TypeOKViewer ==
    /\ currentPage \in Int
    /\ currentScale \in Int
    /\ currentRotation \in Int
    /\ initialScaleCalculated \in BOOLEAN
    /\ \A job \in scaleJobs : job.document \in Versions

(***************************************************************************)
(* The worker module as a state machine.                                   *)
(***************************************************************************)

WCommit(w) ==
    /\ workerInitialized' = w.workerInitialized
    /\ workerSrc' = w.workerSrc

InitializeWorker(path) ==
    /\ Len(workerLog) < MaxCalls
    /\ WCommit(initializeWorker(WCur, path))
    /\ workerLog' = Append(workerLog, [op |-> "initializeWorker", path |-> path])
    /\ calls' = <<>>
    /\ lastAct' = [name |-> "initializeWorker", ver |-> 0, kind |-> ""]
    /\ UNCHANGED <<hookVars, dirty, viewVars, zoomVars, findVars,
                   domVars>>

ResetWorker ==
    /\ Len(workerLog) < MaxCalls
    /\ WCommit(resetWorker(WCur))
    /\ workerLog' = Append(workerLog, [op |-> "resetWorker", path |-> Undefined])
    /\ calls' = <<>>
    /\ lastAct' = [name |-> "resetWorker", ver |-> 0, kind |-> ""]
    /\ UNCHANGED <<hookVars, dirty, viewVars, zoomVars, findVars,
                   domVars>>

NextWorker ==
    \/ \E path \in {Undefined} \cup {Given(w) : w \in WorkerPaths} :
           InitializeWorker(path)
    \/ ResetWorker

SpecWorker == Init /\ [][NextWorker]_vars

(***************************************************************************)
(* Zoom prevention as a state machine: the browser dispatches an event on  *)
(* the container.                                                          *)
(***************************************************************************)

ZoomEvents ==
    [type : {"wheel", "touchstart", "touchmove", "keydown", "gesturestart",
             "gesturechange", "click"},
     ctrlKey : BOOLEAN, metaKey : BOOLEAN, touches : 0..2,
     key : {"", "+", "=", "-", "0", "a"}]

DispatchZoomEvent(event) ==
    /\ mounted = "yes"
    /\ zoomEvent' = event
    /\ suppression' = dispatchEvent(enableZoom, event)
    /\ calls' = <<>>
    /\ lastAct' = [name |-> "dispatchEvent", ver |-> 0, kind |-> event.type]
    /\ UNCHANGED <<hookVars, dirty, viewVars, workerVars, findVars,
                   domVars>>

ZoomProps ==
    {[NoProps EXCEPT !.enableZoom = z] :
        z \in {Undefined, Given(TRUE), Given(FALSE)}}

InitZoom ==
    /\ Constructed("yes")
    /\ \E p \in ZoomProps : ViewerConstructed(p, NormalBox)

NextZoom == \E event \in ZoomEvents : DispatchZoomEvent(event)

SpecZoom == InitZoom /\ [][NextZoom]_vars

(***************************************************************************)
(* The scrolled page list as a state machine.                              *)
(***************************************************************************)

\* The loadPages loop started for document d finishes: setPages, then,
\* if the entries changed, the effect's first updateVisibleRange.
PagesLoaded(d) ==
    /\ mounted = "yes"
    /\ d \in pageLoops
    /\ pageLoops' = pageLoops \ {d}
    /\ LET p == setPages([pages |-> pages, pagesOf |-> pagesOf], d,
                         NumPagesOf(opSrc[d]), view)
           range == IF p.pages # pages
                    THEN updateVisibleRange(p.pages, scrollTop, container.h,
                             view.currentScale, view.currentRotation)
                    ELSE visibleRange
       IN  /\ pages' = p.pages
           /\ pagesOf' = p.pagesOf
           /\ visibleRange' = range
           /\ PageEffects(view, FirstPageMounted(view, p.pages, range), FALSE)
           /\ lastAct' = [name |-> "PagesLoaded", ver |-> d,
                          kind |-> IF p.pagesOf = pagesOf THEN "ignored"
                                   ELSE "set"]
    /\ VCommit(VCur)
    /\ calls' = <<>>
    /\ UNCHANGED <<hookVars, dirty, props, container, view, auxVars,
                   scrollTop, lastPageRef, debounceTimer>>

\* The user scrolls the container.
Scroll(top) ==
    /\ mounted = "yes"
    /\ PagesRendered(view)
    /\ pages > 0
    /\ top # scrollTop
    /\ top <= maxScrollTop(pages, container.h, view.currentScale,
                           view.currentRotation)
    /\ ScrollTo(top)
    /\ VCommit(VCur)
    /\ calls' = <<>>
    /\ lastAct' = [name |-> "scroll", ver |-> top,
                   kind |-> IF debounceTimer > 0 THEN "reset" ELSE "set"]
    /\ UNCHANGED <<hookVars, dirty, props, container, view, auxVars>>

\* The debounce timer fires: calculateVisiblePage and its report.
ScrollTimer ==
    /\ mounted = "yes"
    /\ debounceTimer > 0
    /\ LET w == calculateVisiblePage(pages, scrollTop, container.h,
                    view.currentScale, view.currentRotation)
           report ==
               /\ view.totalPages # 0
               /\ w.maxVisibility * 100 >=
                      ThresholdPct * rectHeight(view.currentScale,
                                                view.currentRotation)
               /\ w.mostVisiblePage # lastPageRef
       IN  /\ lastPageRef' = IF report THEN w.mostVisiblePage
                             ELSE lastPageRef
           /\ VCommit(IF report THEN handlePageChange(VCur, w.mostVisiblePage)
                      ELSE VCur)
    /\ debounceTimer' = debounceTimer - 1
    /\ calls' = <<>>
    /\ lastAct' = [name |-> "ScrollTimer", ver |-> 0, kind |-> ""]
    /\ UNCHANGED <<hookVars, dirty, props, container, view, auxVars, pages,
                   visibleRange, scrollTop, renderTaskRef, renderTasks,
                   jobArgs, textLayer, pageLoops, pagesOf>>

\* The promise of RenderTask id settles: rasterization finished ("done"),
\* failed ("failed"), or was cancelled ("cancelled").
SettleRender(id, outcome) ==
    /\ id \in 1..Len(renderTasks)
    /\ \/ renderTasks[id] = "active" /\ outcome \in {"done", "failed"}
       \/ renderTasks[id] = "cancelled" /\ outcome = "cancelled"
    /\ JCommit(IF outcome = "done" THEN renderThen(JCur, id)
               ELSE [JCur EXCEPT !.renderTasks[id] =
                        IF outcome = "cancelled" THEN "dropped" ELSE outcome])
    /\ VCommit(IF outcome = "done" THEN VCur
               ELSE renderCatch(VCur,
                        IF outcome = "cancelled"
                        THEN "RenderingCancelledException" ELSE "Error", id))
    /\ calls' = <<>>
    /\ lastAct' = [name |-> "SettleRender", ver |-> id, kind |-> outcome]
    /\ UNCHANGED <<hookVars, dirty, props, container, view, auxVars, pages,
                   visibleRange, scrollTop, lastPageRef, debounceTimer,
                   pageLoops, pagesOf>>

\* The promise of page.getTextContent() of RenderTask id resolves.
TextContent(id) ==
    /\ id \in 1..Len(renderTasks)
    /\ renderTasks[id] = "done"
    /\ JCommit(renderTextLayer(JCur, id))
    /\ VCommit(VCur)
    /\ calls' = <<>>
    /\ lastAct' = [name |-> "TextContent", ver |-> id, kind |-> ""]
    /\ UNCHANGED <<hookVars, dirty, props, container, view, auxVars, pages,
                   visibleRange, scrollTop, lastPageRef, debounceTimer,
                   pageLoops, pagesOf>>

\* Positions at a page's top and further down the same page.
ScrollTops ==
    {0, offsetTop(7, InitialScale, 0)}
        \cup {offsetTop(2, InitialScale, 0) + d : d \in {0, 400}}

InitPages ==
    /\ Constructed("yes")
    /\ ViewerConstructed(NoProps, ShortBox)

NextPages ==
    \/ \E s \in {UrlSrc, LongSrc} : Publish(s)
    \/ ViewerRender
    \/ \E job \in scaleJobs : ResolveScale(job)
    \/ \E job \in scaleJobs : DropScale(job)
    \/ \E d \in pageLoops : PagesLoaded(d)
    \/ \E top \in ScrollTops : Scroll(top)
    \/ ScrollTimer
    \/ GoToPage(3)

SpecPages == InitPages /\ [][NextPages]_vars

\* The Render Jobs of the first page, over documents that come and go.
NextJob ==
    \/ \E s \in {UrlSrc, LongSrc} : Publish(s)
    \/ ViewerRender
    \/ \E d \in pageLoops : PagesLoaded(d)
    \/ \E top \in ScrollTops : Scroll(top)
    \/ \E id \in 1..MaxTasks, outcome \in {"done", "failed", "cancelled"} :
           SettleRender(id, outcome)
    \/ \E id \in 1..MaxTasks : TextContent(id)

SpecJob == InitPages /\ [][NextJob]_vars

\* The Render Jobs of the first page of one document while the viewer is
\* rotated and the page scrolls out of and into the Visible Range.
NextRedraw ==
    \/ Publish(LongSrc)
    \/ ViewerRender
    \/ \E d \in pageLoops : PagesLoaded(d)
    \/ \E top \in {0, offsetTop(7, InitialScale, 0)} : Scroll(top)
    \/ \E id \in 1..MaxTasks : SettleRender(id, "done")
    \/ \E id \in 1..MaxTasks : TextContent(id)
    \/ currentRotation = 0 /\ Rotate(90)

SpecRedraw == InitPages /\ [][NextRedraw]_vars

\* A rendered document is replaced by another while its loadPages loop or
\* the Render Job of its first page is still running.
NextSwap ==
    \/ \E s \in {UrlSrc, LongSrc} : Publish(s)
    \/ ViewerRender
    \/ \E job \in scaleJobs : ResolveScale(job)
    \/ \E d \in pageLoops : PagesLoaded(d)
    \/ \E id \in 1..MaxTasks, outcome \in {"done", "cancelled"} :
           SettleRender(id, outcome)

SpecSwap == InitPages /\ [][NextSwap]_vars

\* Page tracking in a container shorter and one taller than a page, at
\* positions that put the band's center in the gap below the first page
\* and at a position inside the third page.
TrackTops(box) ==
    {0, offsetTop(2, InitialScale, 0) + 400}
        \cup {rectHeight(InitialScale, 0) + d - box.h \div 2 : d \in {3, 5, 7}}

InitTrack ==
    /\ Constructed("yes")
    /\ \E box \in {ShortBox, NormalBox} : ViewerConstructed(NoProps, box)

NextTrack ==
    \/ Publish(LongSrc)
    \/ ViewerRender
    \/ \E job \in scaleJobs : ResolveScale(job)
    \/ \E d \in pageLoops : PagesLoaded(d)
    \/ \E top \in TrackTops(container) : Scroll(top)
    \/ ScrollTimer

SpecTrack == InitTrack /\ [][NextTrack]_vars

(***************************************************************************)
(* Find as a state machine over a viewer that shows the URL document.      *)
(***************************************************************************)

FCommit(f) ==
    /\ marks' = f.marks
    /\ searchQueryRef' = f.searchQueryRef
    /\ searchOptionsRef' = f.searchOptionsRef

FindCommand(name, f) ==
    /\ mounted = "yes"
    /\ FCommit(f)
    /\ calls' = <<>>
    /\ lastAct' = [name |-> name, ver |-> 0, kind |-> ""]
    /\ UNCHANGED <<hookVars, dirty, viewVars, workerVars, zoomVars,
                   domVars>>

Find(query, findOptions) ==
    FindCommand("find", find(FCur, view, query, findOptions))

FindNext == FindCommand("findNext", findNext(FCur))

FindPrevious == FindCommand("findPrevious", findPrevious(FCur))

ClearFind == FindCommand("clearFind", clearFind(FCur))

Queries ==
    {<<>>, <<"c", "a", "t">>, <<"C", "a", "t">>, <<"d", "o", "g">>}

FindOptionValues ==
    {NoOptions, [NoOptions EXCEPT !.caseSensitive = TRUE],
     [NoOptions EXCEPT !.wholeWord = TRUE]}

InitFind ==
    /\ Constructed("yes")
    /\ ViewerConstructed(NoProps, NormalBox)

NextFind ==
    \/ Publish(UrlSrc)
    \/ ViewerRender
    \/ \E job \in scaleJobs : ResolveScale(job)
    \/ \E query \in Queries, findOptions \in FindOptionValues :
           Find(query, findOptions)
    \/ FindNext
    \/ FindPrevious
    \/ ClearFind

SpecFind == InitFind /\ [][NextFind]_vars

(***************************************************************************)
(* Properties of the Document Lifecycle Controller.                        *)
(***************************************************************************)

Invoked(cb) == \E i \in 1..Len(calls) : calls[i] = cb

\* A step that settles Load Operation v after a newer load has started.
StaleSettle(name, v) ==
    /\ lastAct'.name = name
    /\ lastAct'.ver = v
    /\ v # versionRef

\* C1: when a load is superseded by a second load before it settles, its
\* result is never published as document/info: its late success destroys
\* its handle and publishes or commits nothing, every handle that is
\* published belongs to the newest load, and so does the committed handle.
C1_SupersededNeverPublished ==
    /\ [][\A v \in Versions :
            /\ StaleSettle("Resolve", v) =>
                 /\ Cells(Cur') = Cells(Cur)
                 /\ documentRef' = documentRef
                 /\ destroyed'[v] = 1
            /\ (document' = v /\ document # v) =>
                 /\ v = versionRef'
                 /\ info'.ver = v]_vars
    /\ [](documentRef # None => documentRef = versionRef)

\* C1 witness: load A was superseded by a load of another source B, B's
\* result was committed, and then A's success arrived and was destroyed.
C1_Witness ==
    /\ lastAct.name = "Resolve"
    /\ lastAct.ver < versionRef
    /\ opSrc[lastAct.ver] # opSrc[versionRef]
    /\ destroyed[lastAct.ver] = 1
    /\ documentRef = versionRef
    /\ document = versionRef
    /\ state = "ready"

\* C2 (as claimed): the published document is never a handle on which
\* destroy() has been invoked.
C2_PublishedNeverDestroyed ==
    (mounted = "yes" /\ document # None) => destroyed[document] = 0

\* C3 (as claimed): a load is started only by mount, a change of the source
\* or reload() (a host re-render is counted with them here); the re-render
\* React schedules after a state change never starts one.
C3_LoadsOnlyByCaller ==
    [][versionRef' # versionRef =>
         lastAct'.name \in {"Mount", "SetSrc", "Reload", "Rerender"}]_vars

\* C4 (as claimed): once ready, the state remains ready with the loaded
\* document published for as long as the caller neither changes the source,
\* reloads, re-renders nor unmounts.
C4_ReadyRemainsReady ==
    [][(state = "ready" /\ mounted = "yes"
          /\ lastAct'.name \notin {"SetSrc", "Reload", "Rerender", "Unmount"})
        => (state' = "ready" /\ document' = document /\ info' = info)]_vars

\* C5: destroy() is invoked at most once on each Document Handle.
C5_DestroyedAtMostOnce == \A v \in Versions : destroyed[v] <= 1

\* C5 witness: after unmount, a committed handle and a stale one have each
\* been destroyed.
C5_Witness ==
    /\ mounted = "gone"
    /\ lastAct.name = "Unmount"
    /\ \E v, w \in handles : v # w /\ destroyed[v] = 1 /\ destroyed[w] = 1

\* C6 (as claimed): after teardown no Document Handle remains live: none is
\* committed and every handle obtained has been destroyed.
C6_NoLiveHandleAfterTeardown ==
    mounted = "gone" =>
        /\ documentRef = None
        /\ \A v \in handles : destroyed[v] >= 1

\* C7 (as claimed): while the source is cleared the state is idle and no
\* document or info is published.
C7_IdleWhileNoSource ==
    (mounted = "yes" /\ src = NoSrc) =>
        (state = "idle" /\ document = None /\ info = NoInfo)

\* C8: a failure arriving from a superseded Load Operation changes neither
\* state, error, document nor info and invokes no callback.
C8_StaleFailureIgnored ==
    [][\A v \in Versions :
         StaleSettle("Reject", v) =>
            /\ Cells(Cur') = Cells(Cur)
            /\ documentRef' = documentRef
            /\ calls' = <<>>]_vars

\* C8 witness: a superseded load failed while a newer load's document is
\* ready.
C8_Witness ==
    /\ mounted = "yes"
    /\ lastAct.name = "Reject"
    /\ lastAct.ver # versionRef
    /\ state = "ready"

\* C9: a password failure of the current load invokes onPasswordRequired and
\* then takes the generic error path (state error, error published,
\* onLoadError); no other step invokes onPasswordRequired.
C9_PasswordInAdditionToError ==
    [][/\ (lastAct'.name = "Reject" /\ lastAct'.ver = versionRef) =>
            /\ calls' = IF lastAct'.kind = "password"
                        THEN <<"onPasswordRequired", "onLoadError">>
                        ELSE <<"onLoadError">>
            /\ mounted = "yes" =>
                 /\ state' = "error"
                 /\ error' = [kind |-> lastAct'.kind, ver |-> versionRef]
       /\ (\E i \in 1..Len(calls') : calls'[i] = "onPasswordRequired") =>
            /\ lastAct'.name = "Reject"
            /\ lastAct'.kind = "password"
            /\ lastAct'.ver = versionRef]_vars

\* C9 witness: the current load has just failed with a PasswordException.
C9_Witness ==
    /\ mounted = "yes"
    /\ lastAct.name = "Reject"
    /\ lastAct.kind = "password"
    /\ lastAct.ver = versionRef
    /\ state = "error"
    /\ Invoked("onPasswordRequired")
    /\ Invoked("onLoadError")

\* C10: a load of a source that is neither a string nor a byte buffer ends
\* in state error with the 'Invalid PDF source type' error of that load
\* published and onLoadError invoked, leaves no Load Operation of its
\* generation in flight, and no settlement changes the cells afterwards.
C10_InvalidSourceFailsSynchronously ==
    /\ []((mounted = "yes" /\ src = OtherSrc) =>
            /\ state = "error"
            /\ error = [kind |-> "invalid", ver |-> versionRef]
            /\ loadingTaskRef = None
            /\ \A v \in pending : v < versionRef)
    /\ [][(mounted' = "yes" /\ src' = OtherSrc) =>
            /\ versionRef' # versionRef =>
                 calls' = <<"onLoadStart", "onLoadError">>
            /\ lastAct'.name \in {"Resolve", "Reject"} =>
                 (Cells(Cur') = Cells(Cur) /\ calls' = <<>>)]_vars

\* C10 witness: with the invalid source in state error, the success of a
\* load started for an earlier source has arrived.
C10_Witness ==
    /\ mounted = "yes"
    /\ src = OtherSrc
    /\ state = "error"
    /\ lastAct.name = "Resolve"

(***************************************************************************)
(* Properties of the viewport and its command surface.                     *)
(***************************************************************************)

NotifiedIn(log, cb, arg) ==
    \E i \in 1..Len(log) : log[i] = [cb |-> cb, arg |-> arg]

Notified(cb, arg) == NotifiedIn(notes, cb, arg)

\* The document and page count the command surface was built with.
HasDocument == view.document # None /\ view.totalPages >= 1

QuarterTurns == {0, 90, 180, 270}

\* clamp(x, 0.1, 10.0), in hundredths
Clamped(x) ==
    IF x < MIN_SCALE THEN MIN_SCALE ELSE IF x > MAX_SCALE THEN MAX_SCALE ELSE x

\* Zoom is policy-disabled: enableZoom is omitted or false.
PolicyDisabled == props.enableZoom \in {Undefined, Given(FALSE)}

\* C11: with a ready 5-page document rendered, once getCurrentPage() returns
\* 5 it still returns 5 after the next render when no navigation command
\* (and no page-tracking update) came between the two renders.
C11_PageKeptUntilNextCommand ==
    [][(/\ lastAct.name = "ViewerRender"
        /\ lastAct'.name = "ViewerRender"
        /\ PagesRendered(view)
        /\ view.totalPages = UrlPages
        /\ view.currentPage = UrlPages)
       => view'.currentPage = UrlPages]_vars

\* C12: setRotation(90) followed by rotate(90) leaves the rotation at 180,
\* and a render, which is no rotation command, does not change the rotation
\* the previous render showed.
C12_RotationKeptUntilNextCommand ==
    [][/\ (/\ lastAct.name = "setRotation"
           /\ lastAct.ver = 90
           /\ lastAct'.name = "rotate"
           /\ lastAct'.ver = 90)
          => currentRotation' = 180
       /\ (/\ lastAct.name = "ViewerRender"
           /\ lastAct'.name = "ViewerRender")
          => view'.currentRotation = view.currentRotation]_vars

\* C13: with zoom enabled, setScale(x) for a numeric x sets the scale to
\* clamp(x, 0.1, 10.0), and the render that applies the update makes
\* getCurrentScale() return that value.
C13_SetScaleClamps ==
    [][/\ (/\ props.enableZoom = Given(TRUE)
           /\ lastAct'.name = "setScale"
           /\ lastAct'.kind = "number")
          => /\ currentScale' = Clamped(lastAct'.ver)
             /\ NotifiedIn(notes', "onScaleChange", Clamped(lastAct'.ver))
       /\ (/\ props.enableZoom = Given(TRUE)
           /\ lastAct.name = "setScale"
           /\ lastAct.kind = "number"
           /\ lastAct'.name = "ViewerRender")
          => view'.currentScale = Clamped(lastAct.ver)]_vars

\* setScale(0.05) was called with zoom enabled and the scale is the lower
\* bound.
C13_Witness ==
    /\ props.enableZoom = Given(TRUE)
    /\ lastAct.name = "setScale"
    /\ lastAct.kind = "number"
    /\ lastAct.ver < MIN_SCALE
    /\ currentScale = MIN_SCALE

\* C14: whenever a document is ready, currentScale lies within [0.1, 10.0].
C14_ScaleWithinBounds ==
    state = "ready" => (MIN_SCALE <= currentScale /\ currentScale <= MAX_SCALE)

\* C15: while zoom is policy-disabled, zoomIn(), zoomOut() and setScale(v),
\* numeric or named, leave the scale unchanged, start no scale resolution
\* and emit no onScaleChange.
C15_DisabledZoomFrozen ==
    [][(/\ PolicyDisabled
        /\ lastAct'.name \in {"zoomIn", "zoomOut", "setScale"})
       => /\ currentScale' = currentScale
          /\ view'.currentScale = view.currentScale
          /\ scaleJobs' = scaleJobs
          /\ notes' = <<>>]_vars

\* setScale with a named policy was called on a rendered document while
\* zoom is policy-disabled.
C15_Witness ==
    /\ PolicyDisabled
    /\ lastAct.name = "setScale"
    /\ lastAct.kind = "auto"
    /\ HasDocument

\* C16: with zoom enabled, zoomIn() at a scale s (the scale of the last
\* render) with 0.1 <= s and s + 0.25 <= 10, followed immediately by
\* zoomOut(), leaves the scale at s.
C16_ZoomInThenOutRestores ==
    [][(/\ props.enableZoom = Given(TRUE)
        /\ lastAct.name = "zoomIn"
        /\ lastAct'.name = "zoomOut"
        /\ MIN_SCALE <= view.currentScale
        /\ view.currentScale + ZOOM_STEP <= MAX_SCALE
        /\ currentScale = view.currentScale + ZOOM_STEP)
       => currentScale' = view.currentScale]_vars

\* C17: rotate(-90) applied right after rotate(90), from a starting rotation
\* in {0, 90, 180, 270} (the rotation of the last render), restores it.
C17_RotateInverse ==
    [][(/\ lastAct.name = "rotate"
        /\ lastAct.ver = 90
        /\ lastAct'.name = "rotate"
        /\ lastAct'.ver = -90
        /\ view.currentRotation \in QuarterTurns
        /\ currentRotation = (view.currentRotation + 90) % 360)
       => currentRotation' = view.currentRotation]_vars

\* C18: currentRotation is one of 0, 90, 180, 270 in every reachable state.
C18_RotationIsQuarterTurn == currentRotation \in QuarterTurns

\* C19: goToPage(n) on a command surface built with a document of
\* totalPages >= 1 sets the current page to 1 when n < 1, to totalPages when
\* n > totalPages and to n otherwise, and notifies that page; built with no
\* document or totalPages = 0 it changes nothing and notifies nothing.
C19_GoToPageClamps ==
    [][lastAct'.name = "goToPage"
       => LET n == lastAct'.ver
              total == view.totalPages
              target == IF n < 1 THEN 1 ELSE IF n > total THEN total ELSE n
          IN  IF HasDocument
              THEN /\ currentPage' = target
                   /\ NotifiedIn(notes', "onPageChange", target)
              ELSE /\ currentPage' = currentPage
                   /\ notes' = <<>>]_vars

\* goToPage was called with a page beyond the last one of a 5-page document
\* and the current page is 5.
C19_Witness ==
    /\ lastAct.name = "goToPage"
    /\ lastAct.ver > UrlPages
    /\ HasDocument
    /\ view.totalPages = UrlPages
    /\ currentPage = UrlPages
    /\ Notified("onPageChange", UrlPages)

\* C20: on a command surface built with a document, nextPage() at
\* currentPage = totalPages and previousPage() at currentPage = 1 change
\* nothing and notify nothing, and in every other case the call moves the
\* current page by exactly one.
C20_StepByOne ==
    [][/\ (lastAct'.name = "nextPage" /\ HasDocument)
          => IF view.currentPage = view.totalPages
             THEN currentPage' = currentPage /\ notes' = <<>>
             ELSE currentPage' = view.currentPage + 1
       /\ (lastAct'.name = "previousPage" /\ HasDocument)
          => IF view.currentPage = 1
             THEN currentPage' = currentPage /\ notes' = <<>>
             ELSE currentPage' = view.currentPage - 1]_vars

(***************************************************************************)
(* Properties of zoom prevention and of worker initialisation.             *)
(***************************************************************************)

\* A zoom gesture: wheel with ctrl/meta, a touch with more than one finger,
\* a Safari gesture event, or ctrl/meta with '+', '=', '-' or '0'.
ZoomGesture(e) ==
    \/ e.type = "wheel" /\ (e.ctrlKey \/ e.metaKey)
    \/ e.type \in {"touchstart", "touchmove"} /\ e.touches > 1
    \/ e.type \in {"gesturestart", "gesturechange"}
    \/ e.type = "keydown" /\ (e.ctrlKey \/ e.metaKey)
                          /\ e.key \in {"+", "=", "-", "0"}

\* C23: an event dispatched on the container is suppressed (default
\* prevented and propagation stopped) if and only if zoom is policy-disabled
\* and the event is a zoom gesture.
C23_SuppressedIffDisabledZoomGesture ==
    zoomEvent # NoEvent
    => /\ suppression.prevented = (PolicyDisabled /\ ZoomGesture(zoomEvent))
       /\ suppression.stopped = (PolicyDisabled /\ ZoomGesture(zoomEvent))

\* A wheel event with only the meta key held was suppressed while zoom is
\* policy-disabled.
C23_Witness ==
    /\ PolicyDisabled
    /\ zoomEvent.type = "wheel"
    /\ zoomEvent.metaKey
    /\ ~zoomEvent.ctrlKey
    /\ suppression.prevented
    /\ suppression.stopped

\* The calls since the most recent resetWorker().
LastReset ==
    CHOOSE i \in 0..Len(workerLog) :
        /\ i = 0 \/ workerLog[i].op = "resetWorker"
        /\ \A j \in (i + 1)..Len(workerLog) : workerLog[j].op # "resetWorker"

InitsSinceReset ==
    {i \in (LastReset + 1)..Len(workerLog) :
        workerLog[i].op = "initializeWorker"}

FirstInit == CHOOSE i \in InitsSinceReset : \A j \in InitsSinceReset : i <= j

\* The given path, or the unpkg CDN default when it is omitted.
ChosenBy(path) == IF path = Undefined THEN CdnWorkerSrc ELSE path[1]

\* C24: after any sequence of initializeWorker / resetWorker calls,
\* isWorkerInitialized() is true exactly when initializeWorker was called
\* since the last reset, and then the global worker source is the value
\* chosen by the first such call.
C24_FirstInitializeWins ==
    /\ isWorkerInitialized = (InitsSinceReset # {})
    /\ InitsSinceReset # {}
       => workerSrc = ChosenBy(workerLog[FirstInit].path)

\* After a reset, initializeWorker was called twice with different
\* arguments.
C24_Witness ==
    /\ LastReset > 0
    /\ Cardinality(InitsSinceReset) >= 2
    /\ workerLog[Len(workerLog)].op = "initializeWorker"
    /\ workerLog[Len(workerLog)].path # workerLog[FirstInit].path

(***************************************************************************)
(* Properties of find.                                                     *)
(***************************************************************************)

WordChar(ch) == ch # " "

\* The query occurs in the text at offset i as a whole word.
WholeWordAt(text, q, i) ==
    /\ SubSeq(text, i + 1, i + Len(q)) = q
    /\ i = 0 \/ ~WordChar(text[i])
    /\ i + Len(q) = Len(text) \/ ~WordChar(text[i + Len(q) + 1])

\* The text contains the query under the options.
Matches(text, q, o) ==
    LET a == IF o.caseSensitive THEN text ELSE toLowerCase(text)
        b == IF o.caseSensitive THEN q ELSE toLowerCase(q)
    IN  \E i \in 0..(Len(a) - Len(b)) :
            IF o.wholeWord THEN WholeWordAt(a, b, i)
            ELSE SubSeq(a, i + 1, i + Len(b)) = b

Highlighted(m) == {s \in Spans : m[s].highlight}
CurrentMatches(m) == {s \in Spans : m[s].highlight /\ m[s].current}

\* C25: find(query, options) with a non-empty query on rendered text layers
\* marks exactly the spans whose text contains the query, case-insensitively
\* unless caseSensitive is set and as a whole word when wholeWord is set.
C25_FindMarksExactlyMatches ==
    [][(lastAct'.name = "find" /\ PagesRendered(view)
                               /\ searchQueryRef' # <<>>)
       => Highlighted(marks') =
            {s \in Spans :
                Matches(SpanTexts[s], searchQueryRef', searchOptionsRef')}]_vars

\* C26: with at least one marked match, findNext() and findPrevious() leave
\* exactly one match marked current; with none they change nothing.
C26_ExactlyOneCurrent ==
    [][lastAct'.name \in {"findNext", "findPrevious"}
       => IF Highlighted(marks) = {} THEN marks' = marks
          ELSE Cardinality(CurrentMatches(marks')) = 1]_vars

\* C27: after clearFind() no span carries a match marker or a current-match
\* marker, and the stored query and options are reset.
C27_ClearFindRemovesAllMarkers ==
    [][lastAct'.name = "clearFind"
       => /\ \A s \in Spans : ~marks'[s].highlight /\ ~marks'[s].current
          /\ searchQueryRef' = <<>>
          /\ searchOptionsRef' = NoOptions]_vars

(***************************************************************************)
(* Properties of page tracking, virtualisation, Render Jobs and keyboard   *)
(* navigation.                                                             *)
(***************************************************************************)

\* Page p covers the whole visible band of the container, so every other
\* page is outside it.
FullBand(p) ==
    LET top == offsetTop(p - 1, view.currentScale, view.currentRotation)
    IN  /\ PagesRendered(view)
        /\ p <= pages
        /\ top <= scrollTop
        /\ top + rectHeight(view.currentScale, view.currentRotation)
               >= scrollTop + container.h

\* C21: when the debounce timer fires after the last scroll event while
\* page p occupies the full visible band, the viewer's currentPage is p.
C21_TrackedPageAfterQuietPeriod ==
    [][lastAct'.name = "ScrollTimer"
       => \A p \in 1..pages : FullBand(p) => currentPage' = p]_vars

\* The pages lying more than two container heights below the visible band.
FarBelow ==
    {i \in 0..(pages - 1) :
        offsetTop(i, view.currentScale, view.currentRotation) - scrollTop
            > 2 * container.h}

\* C22: the end of the Visible Range is bounded by the index of the first
\* page lying more than two container heights below the band plus the
\* buffer of 2 pages (counted at both places where updateVisibleRange adds
\* it), so the pages beyond it are placeholders.
C22_EndBoundedByFirstFarPage ==
    (PagesRendered(view) /\ pages > 0 /\ FarBelow # {})
    => visibleRange.end
         <= (CHOOSE i \in FarBelow : \A k \in FarBelow : i <= k) + 2 + 2

\* C28: the settling of a Render Job never changes the load state or the
\* error and never invokes onLoadError; a cancellation logs nothing and a
\* failure is logged once.
C28_RenderOutcomeNeverAnError ==
    [][lastAct'.name = "SettleRender"
       => /\ state' = state
          /\ error' = error
          /\ ~\E i \in 1..Len(calls') : calls'[i] = "onLoadError"
          /\ lastAct'.kind = "cancelled" => notes' = <<>>
          /\ lastAct'.kind = "failed"
             => notes' = <<[cb |-> "console.error", arg |-> lastAct'.ver]>>
      ]_vars

\* A cancelled rasterization of a ready viewer has settled.
C28_Witness ==
    /\ lastAct.name = "SettleRender"
    /\ lastAct.kind = "cancelled"
    /\ state = "ready"
    /\ renderTasks[lastAct.ver] = "dropped"

\* C29: with the viewer ready and the focus inside the container, the
\* navigation keys move the current page: down keys to the next page, up
\* keys to the previous one, Home to page 1 and End to the last page.
C29_KeyboardNavigates ==
    [][(/\ lastAct'.name = "keydown"
        /\ lastAct'.ver = 1
        /\ state = "ready"
        /\ PagesRendered(view)
        /\ document = view.document
        /\ currentPage = view.currentPage
        /\ currentPage \in 1..view.totalPages)
       => currentPage' =
            IF lastAct'.kind \in {"ArrowDown", "PageDown"}
            THEN Min(currentPage + 1, view.totalPages)
            ELSE IF lastAct'.kind \in {"ArrowUp", "PageUp"}
            THEN Max(currentPage - 1, 1)
            ELSE IF lastAct'.kind = "Home" THEN 1
            ELSE view.totalPages]_vars

\* C30: while PDFPages is mounted its Visible Range satisfies
\* 0 <= start <= end <= pageCount - 1, and end - start >= 4 when the
\* document has at least 5 pages.
C30_VisibleRangeWithinPages ==
    PagesRendered(view)
    => /\ 0 <= visibleRange.start
       /\ visibleRange.start <= visibleRange.end
       /\ visibleRange.end <= view.totalPages - 1
       /\ view.totalPages >= 5
          => visibleRange.end - visibleRange.start >= 4

(***************************************************************************)
(* Properties of the viewport state across documents and of the order of   *)
(* scale commands.                                                         *)
(***************************************************************************)

\* C39: whenever the viewer is ready, 1 <= currentPage <= totalPages.
C39_PageWithinDocument ==
    state = "ready"
    => (1 <= currentPage /\ currentPage <= totalPagesOf(info))

\* C40: a named-policy computation that resolves after a later numeric
\* setScale, zoomIn or zoomOut call leaves the scale that call set.
C40_LateResolutionKeepsLaterScale ==
    [][(/\ lastAct'.name = "ResolveScale"
        /\ lastAct'.kind = "named"
        /\ \/ lastAct.name \in {"zoomIn", "zoomOut"}
           \/ lastAct.name = "setScale" /\ lastAct.kind = "number")
       => currentScale' = currentScale]_vars

(***************************************************************************)
(* Properties of the page tracker: its debounce and its choice of page.    *)
(***************************************************************************)

visibleHeightOf(p) ==
    LET elementTop == offsetTop(p - 1, view.currentScale, view.currentRotation)
        elementBottom ==
            elementTop + rectHeight(view.currentScale, view.currentRotation)
    IN  Max(0, Min(elementBottom, scrollTop + container.h)
                   - Max(elementTop, scrollTop))

\* The pages whose span contains the vertical center of the visible band.
Straddlers ==
    {p \in 1..pages :
        LET elementTop ==
                offsetTop(p - 1, view.currentScale, view.currentRotation)
            elementBottom ==
                elementTop + rectHeight(view.currentScale, view.currentRotation)
        IN  /\ 2 * elementTop <= 2 * scrollTop + container.h
            /\ 2 * elementBottom >= 2 * scrollTop + container.h}

MeetsThreshold(p) ==
    visibleHeightOf(p) * 100
        >= ThresholdPct * rectHeight(view.currentScale, view.currentRotation)

\* The pages the tracker reported in the step just taken.
Reported(log) ==
    {log[i].arg : i \in {k \in 1..Len(log) : log[k].cb = "onPageChange"}}

\* C37 as stated: the tracker emits onPageChange(p) only if p differs from
\* the last page it reported and p's visibility ratio is at least the
\* threshold.
C37_ReportsOnlyAboveThreshold ==
    [][lastAct'.name = "ScrollTimer"
       => \A p \in Reported(notes') :
              p # lastPageRef /\ MeetsThreshold(p)]_vars

\* C37 amended: the tracker emits onPageChange(p) only if p differs from
\* the last page it reported and p either contains the center of the
\* visible band or has a visibility ratio of at least the threshold.
C37_ReportsCenterOrAboveThreshold ==
    [][lastAct'.name = "ScrollTimer"
       => \A p \in Reported(notes') :
              /\ p # lastPageRef
              /\ p \in Straddlers \/ MeetsThreshold(p)]_vars

\* The tracker reported a page that does not contain the center of the
\* band, on its visibility ratio alone.
C37_Witness ==
    /\ lastAct.name = "ScrollTimer"
    /\ Reported(notes) # {}
    /\ Reported(notes) \cap Straddlers = {}

ActiveJobs == {id \in 1..Len(renderTasks) : renderTasks[id] = "active"}

\* C31: the completion of a Render Job that is not the most recently
\* dispatched one for the page, and its text-content continuation, leave
\* the page's text layer as it is.
C31_SupersededJobNeverWrites ==
    [][(/\ lastAct'.name \in {"SettleRender", "TextContent"}
        /\ lastAct'.ver # renderTaskRef)
       => textLayer' = textLayer]_vars

\* C32: at every doc.destroy() call no Render Job for a page of that
\* document is active.
C32_NoActiveJobAtDestroy ==
    [][\A d \in DOMAIN destroyed :
          destroyed'[d] > destroyed[d]
          => \A id \in ActiveJobs : jobArgs[id].document # d]_vars

C34_OneActiveJobPerPage ==
    /\ Cardinality(ActiveJobs) <= 1
    /\ ActiveJobs \subseteq {renderTaskRef}
    /\ ~FirstPageMounted(view, pages, visibleRange) => ActiveJobs = {}

\* A job of the mounted page was cancelled by the dispatch of the job that
\* is active now.
C34_Witness ==
    /\ ActiveJobs # {}
    /\ \E id \in 1..Len(renderTasks) :
           /\ renderTasks[id] = "cancelled"
           /\ jobArgs[id].element = jobArgs[renderTaskRef].element

====
